---------------------------- MODULE Spec2Model ----------------------------
(***************************************************************************)
(* Model of example/opengl_sphere.cpp: a vtkMapper subclass that           *)
(* tesselates a sphere into a shared OpenGL/OpenCL buffer on the first     *)
(* Render call and draws the buffer on every Render call.                  *)
(*                                                                         *)
(* Two specifications:                                                     *)
(*   Spec      the gpu_sphere_mapper object driven by Render / GetBounds   *)
(*             calls, each call one atomic action (the render loop is      *)
(*             single-threaded);                                           *)
(*   SpecTess  the function tesselate_sphere for slice counts drawn from   *)
(*             a bounded set, with the kernel's work-items executed one    *)
(*             at a time in every order.                                   *)
(***************************************************************************)
EXTENDS Integers, Sequences, FiniteSets, TLC

VARIABLES
    device,            \* the system's default compute device (environment)
    m_radius,          \* gpu_sphere_mapper fields
    m_phi_slices,
    m_theta_slices,
    m_vertex_count,
    m_initialized,
    m_tesselated,
    m_context,
    m_command_queue,
    m_vertex_buffer,
    bounds,            \* static double bounds[6] of GetBounds
    gl_buffers,        \* OpenGL buffer objects, indexed by buffer name
    commands,          \* commands issued so far, in program order:
                       \*   OpenCL enqueues on the command queue and GL draws
    stats,             \* how often each step of the code has run
    last_call,         \* the call that ran last
    outcome,           \* how it ended: "returned" or the error it raised
    calls,             \* number of calls made so far
    t_pc,              \* tesselate_sphere run: control position
    t_radius,          \*   its arguments
    t_phi_slices,
    t_theta_slices,
    t_buffer,          \*   the float4 slots of the vertex buffer
    t_owner,           \*   which side the buffer is handed to: "gl" or "cl"
    t_pending,         \*   work-items of the dispatch not yet executed
    t_stray            \*   indices written outside the buffer

mapper_vars == << device, m_radius, m_phi_slices, m_theta_slices, m_vertex_count,
                  m_initialized, m_tesselated, m_context, m_command_queue,
                  m_vertex_buffer, bounds, gl_buffers, commands, stats,
                  last_call, outcome, calls >>

tess_vars == << t_pc, t_radius, t_phi_slices, t_theta_slices, t_buffer,
                t_owner, t_pending, t_stray >>

vars == << mapper_vars, tess_vars >>

-----------------------------------------------------------------------------
(* Bounds of the model *)

MaxCalls == 5          \* calls made on one mapper

MaxSlices == 3         \* largest slice count tried for tesselate_sphere

-----------------------------------------------------------------------------
(* Values *)

\* a default-constructed compute::context / command_queue / opengl_buffer
\* wraps no OpenCL object
NullHandle == 0

\* contents of storage that nothing has written
Undefined == [defined |-> FALSE]

\* m_vertex_count before its first assignment: the constructor leaves it
\* unset, and Render assigns it before the first read (line 131 precedes
\* line 146), so one value outside the counts stands for the indeterminate int
Uninitialized == -1

SizeofFloat == 4

\* constructor values
ctor_m_radius == 5

ctor_m_phi_slices == 100

ctor_m_theta_slices == 100

ctor_m_initialized == FALSE

\* faulty variant: the constructor starts with the tesselated flag set
ctor_m_tesselated_wrong == TRUE

ctor_m_tesselated == FALSE

\* The default compute device of the system:
\*   "none"       there is no compute device,
\*   "no_sharing" the device lacks cl_khr_gl_sharing,
\*   "sharing"    the device supports it.
Devices == {"none", "no_sharing", "sharing"}

\* Errors raised by the compute library (it reports failures as exceptions).
Errors == {"no_device", "invalid_command_queue", "build_failure", "dispatch_failure"}

Raised(o) == o \in Errors

-----------------------------------------------------------------------------
(* Command records *)

Acquire(vbo) == [op |-> "acquire", vbo |-> vbo]

NDRange(vbo, gx, gy) == [op |-> "ndrange", vbo |-> vbo, global |-> <<gx, gy>>,
                         local |-> <<1, 1>>]

Release(vbo) == [op |-> "release", vbo |-> vbo]

Draw(vbo, count) == [op |-> "draw", vbo |-> vbo, count |-> count]

-----------------------------------------------------------------------------
(* Initialize *)

\* compute::system::default_device(): raises when the system has no device
default_device_fails(dev) == dev = "none"

\* faulty variant: the sharing extension is not checked
supports_extension_unchecked(dev) == TRUE

\* device.supports_extension("cl_khr_gl_sharing")
supports_extension(dev) == dev = "sharing"

\* Initialize(renderer, actor): the fields and counters after the call and
\* the error it raised, if any.
Initialize(dev, ctx, queue, st) ==
    LET st1 == [st EXCEPT !.init_calls = @ + 1] IN
    IF default_device_fails(dev)
    THEN [raised |-> "no_device", m_context |-> ctx, m_command_queue |-> queue,
          stats |-> st1]
    ELSE IF ~supports_extension(dev)
    THEN \* error message, early return: no context, no queue
         [raised |-> "none", m_context |-> ctx, m_command_queue |-> queue,
          stats |-> [st1 EXCEPT !.init_returns = @ + 1]]
    ELSE [raised |-> "none",
          m_context |-> st.contexts + 1,
          m_command_queue |-> st.queues + 1,
          stats |-> [st1 EXCEPT !.init_returns = @ + 1,
                                !.contexts = @ + 1,
                                !.queues = @ + 1]]

-----------------------------------------------------------------------------
(* tesselate_sphere, host side *)

\* queue.get_context() has no context to return for a command queue that
\* wraps no OpenCL queue: the query raises
get_context_fails(queue) == queue = NullHandle

\* size in bytes of the storage given to the OpenGL buffer
BufferBytes(vertex_count) == SizeofFloat * 4 * vertex_count

\* what the kernel dispatch leaves in the buffer: the image of the kernel
\* for its arguments (SpecTess computes it slot by slot)
KernelImage(radius, phi_slices, theta_slices) ==
    [defined |-> TRUE, kernel |-> "tesselate_sphere", radius |-> radius,
     phi_slices |-> phi_slices, theta_slices |-> theta_slices]

\* faulty variant: the acquire is not enqueued
opengl_enqueue_acquire_buffer_missing(cmds, vbo) == cmds

opengl_enqueue_acquire_buffer(cmds, vbo) == Append(cmds, Acquire(vbo))

\* faulty variant: the release is not enqueued
opengl_enqueue_release_buffer_missing(cmds, vbo) == cmds

opengl_enqueue_release_buffer(cmds, vbo) == Append(cmds, Release(vbo))

\* tesselate_sphere(radius, phi_slices, theta_slices, queue): the buffer it
\* returns, the GL buffers and commands after it, and the error it raised.
\* build_ok / dispatch_ok: whether program.build() and
\* enqueue_nd_range_kernel() succeed in this call.
tesselate_sphere(radius, phi_slices, theta_slices, queue, glb, cmds, st, build_ok, dispatch_ok) ==
    LET st1 == [st EXCEPT !.tess_calls = @ + 1]
        vertex_count == phi_slices * theta_slices
        vbo == Len(glb) + 1                       \* GenBuffersARB: a fresh name
        glb1 == Append(glb, [bytes |-> BufferBytes(vertex_count),
                             data |-> Undefined]) \* BufferDataARB(..., NULL, ...)
        st2 == [st1 EXCEPT !.builds = @ + 1]
        cmds1 == opengl_enqueue_acquire_buffer(cmds, vbo)
        cmds2 == Append(cmds1, NDRange(vbo, phi_slices, theta_slices))
        glb2 == [glb1 EXCEPT ![vbo].data =
                     KernelImage(radius, phi_slices, theta_slices)]
        cmds3 == opengl_enqueue_release_buffer(cmds2, vbo)
    IN
    IF get_context_fails(queue)
    THEN [raised |-> "invalid_command_queue", buffer |-> NullHandle,
          gl_buffers |-> glb, commands |-> cmds, stats |-> st1]
    ELSE IF ~build_ok
    THEN [raised |-> "build_failure", buffer |-> NullHandle,
          gl_buffers |-> glb1, commands |-> cmds, stats |-> st2]
    ELSE IF ~dispatch_ok
    THEN [raised |-> "dispatch_failure", buffer |-> NullHandle,
          gl_buffers |-> glb1, commands |-> cmds1, stats |-> st2]
    ELSE [raised |-> "none", buffer |-> vbo,
          gl_buffers |-> glb2, commands |-> cmds3, stats |-> st2]

-----------------------------------------------------------------------------
(* gpu_sphere_mapper *)

InitStats == [init_calls |-> 0, init_returns |-> 0, contexts |-> 0, queues |-> 0,
              tess_calls |-> 0, builds |-> 0]

\* the object after gpu_sphere_mapper()
Constructed ==
    /\ m_radius = ctor_m_radius
    /\ m_phi_slices = ctor_m_phi_slices
    /\ m_theta_slices = ctor_m_theta_slices
    /\ m_vertex_count = Uninitialized
    /\ m_initialized = ctor_m_initialized
    /\ m_tesselated = ctor_m_tesselated
    /\ m_context = NullHandle
    /\ m_command_queue = NullHandle
    /\ m_vertex_buffer = NullHandle
    /\ bounds = << 0, 0, 0, 0, 0, 0 >>
    /\ gl_buffers = << >>
    /\ commands = << >>
    /\ stats = InitStats
    /\ last_call = "none"
    /\ outcome = "none"
    /\ calls = 0

TessIdle ==
    /\ t_pc = "idle"
    /\ t_radius = 0
    /\ t_phi_slices = 0
    /\ t_theta_slices = 0
    /\ t_buffer = << >>
    /\ t_owner = "gl"
    /\ t_pending = {}
    /\ t_stray = {}

Init ==
    /\ device \in Devices
    /\ Constructed
    /\ TessIdle

NeedsInitialize(initialized) == ~initialized

\* faulty variant: the tesselated flag is not consulted
NeedsTesselation_always(tesselated) == TRUE

NeedsTesselation(tesselated) == ~tesselated

\* faulty variant: m_initialized is set only when a queue was created
InitializedAfterInitialize_if_usable(queue) == queue # NullHandle

\* m_initialized = true follows every Initialize call that returned
InitializedAfterInitialize(queue) == TRUE

\* faulty variant: m_tesselated is set before tesselate_sphere is called
TesselatedAfterError_set == TRUE

\* m_tesselated = true is skipped when tesselate_sphere raised
TesselatedAfterError == FALSE

\* faulty variant: the count of floats instead of the count of vertices
RenderVertexCount_floats(phi_slices, theta_slices) == 4 * phi_slices * theta_slices

\* m_vertex_count = m_phi_slices * m_theta_slices
RenderVertexCount(phi_slices, theta_slices) == phi_slices * theta_slices

\* Render(renderer, actor)
Render(build_ok, dispatch_ok) ==
    /\ calls < MaxCalls
    /\ calls' = calls + 1
    /\ last_call' = "Render"
    /\ LET i == IF NeedsInitialize(m_initialized)
                THEN Initialize(device, m_context, m_command_queue, stats)
                ELSE [raised |-> "none", m_context |-> m_context,
                      m_command_queue |-> m_command_queue, stats |-> stats]
           initialized1 == IF NeedsInitialize(m_initialized)
                           THEN InitializedAfterInitialize(i.m_command_queue)
                           ELSE m_initialized
           t == tesselate_sphere(m_radius, m_phi_slices, m_theta_slices,
                                 i.m_command_queue, gl_buffers, commands,
                                 i.stats, build_ok, dispatch_ok)
       IN
       IF Raised(i.raised)
       THEN \* Initialize raised: the rest of Render is skipped
            /\ outcome' = i.raised
            /\ stats' = i.stats
            /\ UNCHANGED << m_vertex_count, m_initialized, m_tesselated, m_context,
                            m_command_queue, m_vertex_buffer, gl_buffers, commands >>
       ELSE
            /\ m_initialized' = initialized1
            /\ m_context' = i.m_context
            /\ m_command_queue' = i.m_command_queue
            /\ IF NeedsTesselation(m_tesselated)
               THEN /\ m_vertex_count' = RenderVertexCount(m_phi_slices, m_theta_slices)
                    /\ gl_buffers' = t.gl_buffers
                    /\ stats' = t.stats
                    /\ IF Raised(t.raised)
                       THEN \* tesselate_sphere raised: no assignment, no draw
                            /\ outcome' = t.raised
                            /\ commands' = t.commands
                            /\ m_tesselated' = TesselatedAfterError
                            /\ UNCHANGED m_vertex_buffer
                       ELSE /\ outcome' = "returned"
                            /\ m_vertex_buffer' = t.buffer
                            /\ m_tesselated' = TRUE
                            /\ commands' = Append(t.commands,
                                   Draw(t.buffer, RenderVertexCount(m_phi_slices, m_theta_slices)))
               ELSE /\ outcome' = "returned"
                    /\ stats' = i.stats
                    /\ commands' = Append(commands,
                                          Draw(m_vertex_buffer, m_vertex_count))
                    /\ UNCHANGED << m_vertex_count, m_tesselated, m_vertex_buffer,
                                    gl_buffers >>
    /\ UNCHANGED << device, m_radius, m_phi_slices, m_theta_slices, bounds >>
    /\ UNCHANGED tess_vars

\* faulty variant: a sign slip in bounds[4]
GetBoundsValue_wrong(radius) ==
    << -radius, radius, -radius, radius, radius, radius >>

\* the six values GetBounds stores in its static array
GetBoundsValue(radius) ==
    << -radius, radius, -radius, radius, -radius, radius >>

\* GetBounds()
GetBounds ==
    /\ calls < MaxCalls
    /\ calls' = calls + 1
    /\ last_call' = "GetBounds"
    /\ outcome' = "returned"
    /\ bounds' = GetBoundsValue(m_radius)
    /\ UNCHANGED << device, m_radius, m_phi_slices, m_theta_slices, m_vertex_count,
                    m_initialized, m_tesselated, m_context, m_command_queue,
                    m_vertex_buffer, gl_buffers, commands, stats >>
    /\ UNCHANGED tess_vars

Next ==
    \/ \E build_ok \in BOOLEAN, dispatch_ok \in BOOLEAN : Render(build_ok, dispatch_ok)
    \/ GetBounds

Spec == Init /\ [][Next]_vars

-----------------------------------------------------------------------------
(* tesselate_sphere for arbitrary arguments, work-item by work-item *)

Radii == {1, ctor_m_radius}

SliceCounts == 1 .. MaxSlices

\* the global work size { phi_slices, theta_slices }: one work-item per pair
WorkItems(phi_slices, theta_slices) ==
    (0 .. phi_slices - 1) \X (0 .. theta_slices - 1)

\* number of float4 elements that fit the buffer's storage
BufferSlots(bytes) == bytes \div (4 * SizeofFloat)

\* faulty variant: phi_i used for the column as well
KernelIndex_phi_twice(phi_i, theta_i, phi_slices, theta_slices) ==
    phi_i * phi_slices + phi_i

\* variant: theta_slices as the row stride
KernelIndex_theta_stride(phi_i, theta_i, phi_slices, theta_slices) ==
    phi_i * theta_slices + theta_i

\* the element the work-item stores to: vertex_buffer[phi_i*phi_slices+theta_i]
KernelIndex(phi_i, theta_i, phi_slices, theta_slices) ==
    phi_i * phi_slices + theta_i

\* The float4 the work-item computes.  x, y and z are radius times products
\* of sines and cosines of phi = phi_i*2*pi/phi_slices and
\* theta = theta_i*2*pi/theta_slices; they are kept as the angles'
\* fractions of a turn.  w is the constant 1.
KernelVertex(radius, phi_i, theta_i, phi_slices, theta_slices) ==
    [defined |-> TRUE,
     radius |-> radius,
     phi |-> << phi_i, phi_slices >>,
     theta |-> << theta_i, theta_slices >>,
     w |-> 1]

InitTess ==
    /\ device \in {"sharing"}
    /\ Constructed
    /\ t_pc = "start"
    /\ t_radius \in Radii
    /\ t_phi_slices \in SliceCounts
    /\ t_theta_slices \in SliceCounts
    /\ t_buffer = << >>
    /\ t_owner = "gl"
    /\ t_pending = {}
    /\ t_stray = {}

\* GenBuffersARB / BufferDataARB(NULL) / opengl_buffer(context, vbo)
TessAllocate ==
    /\ t_pc = "start"
    /\ t_pc' = "allocated"
    /\ t_buffer' = [i \in 0 .. BufferSlots(BufferBytes(t_phi_slices * t_theta_slices)) - 1
                        |-> Undefined]
    /\ UNCHANGED << t_radius, t_phi_slices, t_theta_slices, t_owner, t_pending, t_stray >>
    /\ UNCHANGED mapper_vars

\* opengl_enqueue_acquire_buffer
TessAcquire ==
    /\ t_pc = "allocated"
    /\ t_pc' = "acquired"
    /\ t_owner' = "cl"
    /\ UNCHANGED << t_radius, t_phi_slices, t_theta_slices, t_buffer, t_pending, t_stray >>
    /\ UNCHANGED mapper_vars

\* enqueue_nd_range_kernel(kernel, 2, offset, work_size, group_size)
TessDispatch ==
    /\ t_pc = "acquired"
    /\ t_pc' = "running"
    /\ t_pending' = WorkItems(t_phi_slices, t_theta_slices)
    /\ UNCHANGED << t_radius, t_phi_slices, t_theta_slices, t_buffer, t_owner, t_stray >>
    /\ UNCHANGED mapper_vars

\* one work-item runs the kernel body; a store inside the buffer
WorkItem(phi_i, theta_i) ==
    LET index == KernelIndex(phi_i, theta_i, t_phi_slices, t_theta_slices) IN
    /\ t_pc = "running"
    /\ << phi_i, theta_i >> \in t_pending
    /\ index \in DOMAIN t_buffer
    /\ t_buffer' = [t_buffer EXCEPT ![index] =
                       KernelVertex(t_radius, phi_i, theta_i,
                                    t_phi_slices, t_theta_slices)]
    /\ t_pending' = t_pending \ {<< phi_i, theta_i >>}
    /\ UNCHANGED << t_pc, t_radius, t_phi_slices, t_theta_slices, t_owner, t_stray >>
    /\ UNCHANGED mapper_vars

\* one work-item runs the kernel body; its store falls outside the buffer.
\* The store is undefined behaviour: it lands in memory that is not the
\* buffer's and the kernel goes on, or the device faults.
WorkItemStray(phi_i, theta_i, faults) ==
    LET index == KernelIndex(phi_i, theta_i, t_phi_slices, t_theta_slices) IN
    /\ t_pc = "running"
    /\ << phi_i, theta_i >> \in t_pending
    /\ index \notin DOMAIN t_buffer
    /\ t_stray' = t_stray \cup {index}
    /\ t_pending' = t_pending \ {<< phi_i, theta_i >>}
    /\ t_pc' = IF faults THEN "fault" ELSE t_pc
    /\ UNCHANGED << t_radius, t_phi_slices, t_theta_slices, t_buffer, t_owner >>
    /\ UNCHANGED mapper_vars

\* opengl_enqueue_release_buffer, run by the in-order queue after the kernel
TessRelease ==
    /\ t_pc = "running"
    /\ t_pending = {}
    /\ t_pc' = "done"
    /\ t_owner' = "gl"
    /\ UNCHANGED << t_radius, t_phi_slices, t_theta_slices, t_buffer, t_pending, t_stray >>
    /\ UNCHANGED mapper_vars

NextTess ==
    \/ TessAllocate
    \/ TessAcquire
    \/ TessDispatch
    \/ \E wi \in t_pending : WorkItem(wi[1], wi[2])
    \/ \E wi \in t_pending, faults \in BOOLEAN : WorkItemStray(wi[1], wi[2], faults)
    \/ TessRelease

SpecTess == InitTess /\ [][NextTess]_vars

-----------------------------------------------------------------------------
(* Properties of the mapper (Spec) *)

\* positions in commands of the commands of one kind
Ops(kind) == {k \in 1 .. Len(commands) : commands[k].op = kind}

NumOps(kind) == Cardinality(Ops(kind))

\* a step that is a call of Render / of GetBounds
RenderStep == calls' # calls /\ last_call' = "Render"

GetBoundsStep == calls' # calls /\ last_call' = "GetBounds"

\* the acquire and release commands, in queue order
SyncOps == SelectSeq(commands, LAMBDA c : c.op \in {"acquire", "release"})

\* C1: once a Render call has succeeded (a draw was issued), exactly one
\* kernel dispatch has been enqueued in total, and every later Render call
\* returns normally, adds only a draw of the same buffer to the commands and
\* leaves the vertex buffer and the GL buffers' contents as they were.
C1_SingleDispatch ==
    /\ [](NumOps("draw") >= 1 => NumOps("ndrange") = 1)
    /\ [][ (RenderStep /\ NumOps("draw") >= 1) =>
             /\ outcome' = "returned"
             /\ commands' = Append(commands, Draw(m_vertex_buffer, m_vertex_count))
             /\ m_vertex_buffer' = m_vertex_buffer
             /\ gl_buffers' = gl_buffers ]_vars

C1_Witness ==
    /\ NumOps("draw") >= 2
    /\ NumOps("ndrange") = 1
    /\ gl_buffers[m_vertex_buffer].data.defined

C4_RetryAfterFailure ==
    [][ RenderStep =>
          /\ (outcome' \in {"build_failure", "dispatch_failure"} =>
                 m_initialized' /\ ~m_tesselated')
          /\ ((m_initialized /\ ~m_tesselated) =>
                 stats'.tess_calls = stats.tess_calls + 1) ]_vars

C4_Witness ==
    /\ device = "sharing"
    /\ stats.tess_calls = 3
    /\ stats.builds = 3
    /\ NumOps("acquire") = 2
    /\ m_tesselated

\* C5: no Render call ends with an error raised to its caller.
C5_NoErrorEscapesRender ==
    last_call = "Render" => ~Raised(outcome)

\* C7: the acquire and release commands on the command queue alternate
\* strictly, starting with an acquire, so at most one acquire is outstanding.
C7_AcquireReleaseAlternate ==
    /\ \A k \in 1 .. Len(SyncOps) :
           SyncOps[k].op = IF k % 2 = 1 THEN "acquire" ELSE "release"
    /\ NumOps("acquire") - NumOps("release") <= 1

\* C8: m_initialized and m_tesselated never go from true to false, and
\* m_tesselated is never true while m_initialized is false.
C8_FlagsMonotonic ==
    /\ [](m_tesselated => m_initialized)
    /\ [][ /\ (m_initialized => m_initialized')
           /\ (m_tesselated => m_tesselated') ]_vars

C8_Witness ==
    /\ m_initialized
    /\ m_tesselated
    /\ last_call = "GetBounds"
    /\ NumOps("draw") >= 2

\* C9: at most one context and one queue are ever created, a created
\* context or queue is never replaced, Initialize returns at most once, and
\* once it has returned (also early, for lack of sharing) it is not called
\* again.
C9_InitializeOnce ==
    /\ [](stats.contexts <= 1 /\ stats.queues <= 1 /\ stats.init_returns <= 1)
    /\ [][ /\ (m_context # NullHandle => m_context' = m_context)
           /\ (m_command_queue # NullHandle => m_command_queue' = m_command_queue)
           /\ (stats.init_returns >= 1 => stats'.init_calls = stats.init_calls) ]_vars

C9_Witness ==
    /\ device = "no_sharing"
    /\ stats.init_calls = 1
    /\ stats.init_returns = 1
    /\ stats.tess_calls >= 3

\* C10: after a GetBounds call the static array holds
\* [-radius, radius, -radius, radius, -radius, radius], that is
\* [-5, 5, -5, 5, -5, 5], the call returned normally, and the call changed
\* none of m_initialized, m_tesselated, the vertex buffer, the GL buffers.
C10_GetBounds ==
    /\ [](last_call = "GetBounds" =>
             /\ outcome = "returned"
             /\ bounds = << -m_radius, m_radius, -m_radius, m_radius,
                            -m_radius, m_radius >>
             /\ bounds = << -5, 5, -5, 5, -5, 5 >>)
    /\ [][ GetBoundsStep =>
             /\ m_initialized' = m_initialized
             /\ m_tesselated' = m_tesselated
             /\ m_vertex_buffer' = m_vertex_buffer
             /\ gl_buffers' = gl_buffers
             /\ commands' = commands ]_vars

C10_Witness ==
    /\ last_call = "GetBounds"
    /\ m_initialized
    /\ ~m_tesselated
    /\ m_command_queue = NullHandle
    /\ bounds = << -5, 5, -5, 5, -5, 5 >>

\* C11: every draw is issued with m_tesselated set, takes as vertex source
\* the GL buffer that the successful tesselation created and filled (the one
\* m_vertex_buffer names), and draws phi_slices * theta_slices items, the
\* vertex count the buffer's storage was allocated for.
C11_DrawUsesTesselatedBuffer ==
    \A d \in Ops("draw") :
        /\ m_tesselated
        /\ commands[d].vbo = m_vertex_buffer
        /\ commands[d].vbo \in DOMAIN gl_buffers
        /\ gl_buffers[commands[d].vbo].data.defined
        /\ \E k \in 1 .. d - 1 : /\ commands[k].op = "ndrange"
                                 /\ commands[k].vbo = commands[d].vbo
        /\ commands[d].count = m_phi_slices * m_theta_slices
        /\ gl_buffers[commands[d].vbo].bytes = SizeofFloat * 4 * commands[d].count

C11_Witness ==
    /\ NumOps("draw") >= 2
    /\ Len(gl_buffers) >= 2
    /\ m_vertex_buffer = Len(gl_buffers)

\* C12: over any sequence of Render calls the kernel source is built at
\* most once.
C12_BuiltAtMostOnce ==
    stats.builds <= 1

\* C14: tesselate_sphere is only ever called with a command queue that
\* Initialize created: while the mapper's queue is the default-constructed
\* one, no tesselation has been attempted.
C14_TesselateOnlyWithQueue ==
    m_command_queue = NullHandle => stats.tess_calls = 0

\* C15: every enqueued kernel dispatch is directly preceded on the queue by
\* the acquire of the buffer it writes and directly followed by the release
\* of that buffer, so the kernel's writes fall between the two.
C15_AcquireDispatchRelease ==
    \A k \in Ops("ndrange") :
        /\ k > 1
        /\ commands[k - 1] = Acquire(commands[k].vbo)
        /\ k < Len(commands)
        /\ commands[k + 1] = Release(commands[k].vbo)
        /\ \A j \in 1 .. k - 1 : commands[j] # Release(commands[k].vbo)

C15_Witness ==
    /\ NumOps("ndrange") = 1
    /\ NumOps("acquire") >= 2
    /\ NumOps("release") = 1

\* C19: when a Render call has ended, normally or with an error, every
\* enqueued acquire has its release enqueued: no buffer is left acquired.
C19_NoAcquireLeftOpen ==
    \A a \in Ops("acquire") :
        \E r \in a + 1 .. Len(commands) : commands[r] = Release(commands[a].vbo)

-----------------------------------------------------------------------------
(* Properties of tesselate_sphere (SpecTess) *)

\* C6: when tesselate_sphere has completed, the buffer has
\* phi_slices * theta_slices slots and every slot holds a vertex written by
\* a work-item, with w = 1.
C6_EverySlotWritten ==
    t_pc = "done" =>
        /\ DOMAIN t_buffer = 0 .. t_phi_slices * t_theta_slices - 1
        /\ \A i \in 0 .. t_phi_slices * t_theta_slices - 1 :
               t_buffer[i].defined /\ t_buffer[i].w = 1

\* the index a work-item stores to in the current run
TargetIndex(wi) == KernelIndex(wi[1], wi[2], t_phi_slices, t_theta_slices)

\* no work-item still to run stores to a slot that a work-item has written
NoPendingOverwrite ==
    \A wi \in t_pending :
        TargetIndex(wi) \in DOMAIN t_buffer => ~t_buffer[TargetIndex(wi)].defined

\* C16: no two work-items of one dispatch store to the same buffer slot: no
\* work-item still to run targets a slot another work-item already wrote.
C16_NoTwoWritersPerSlot ==
    t_pc = "running" => NoPendingOverwrite

\* C17: no work-item stores outside the allocated buffer.
C17_NoStoreOutOfBounds ==
    t_stray = {}

\* C18: when phi_slices = theta_slices, the work-items' indices map the
\* dispatch domain one-to-one onto the buffer's slots: no store falls outside
\* the buffer, no slot is stored to twice, the written slots are as many as
\* the work-items that ran, and at completion every slot holds the vertex of
\* the one work-item whose index it is.
C18_SquareIndexBijection ==
    (t_phi_slices = t_theta_slices /\ t_pc \in {"running", "done", "fault"}) =>
        /\ t_stray = {}
        /\ t_pc # "fault"
        /\ NoPendingOverwrite
        /\ Cardinality({i \in DOMAIN t_buffer : t_buffer[i].defined})
             = t_phi_slices * t_theta_slices - Cardinality(t_pending)
        /\ t_pc = "done" =>
             /\ DOMAIN t_buffer = 0 .. t_phi_slices * t_theta_slices - 1
             /\ \A wi \in WorkItems(t_phi_slices, t_theta_slices) :
                    t_buffer[TargetIndex(wi)] =
                        KernelVertex(t_radius, wi[1], wi[2],
                                     t_phi_slices, t_theta_slices)

C18_Witness ==
    /\ t_pc = "done"
    /\ t_phi_slices = MaxSlices
    /\ t_theta_slices = MaxSlices
    /\ \A i \in DOMAIN t_buffer : t_buffer[i].defined

=============================================================================
